---- MODULE Spec2Model ----
(***************************************************************************)
(* perf_analyze (src/src/bin/perf_analyze.rs): per-sample stack            *)
(* attribution to a root function and tracked callees, and the rollup of   *)
(* the per-file counters into benchmark and suite summaries.               *)
(*                                                                         *)
(* Four specifications share the variables:                                *)
(*   SpecParse   the two line parsers applied to every short line;         *)
(*   SpecCalc    estimate_ms, safe_percent and the callee entry built from *)
(*               them, applied to drawn counts and frequencies;            *)
(*   SpecStream  analyze_function_focus_with_perf_script, one line of the  *)
(*               perf-script output per step;                              *)
(*   Spec        main, one sub-step of the per-file loop per step.         *)
(* Text is modelled by TLA+ strings (Len, SubSeq and \o act on them), an   *)
(* Option by a sequence of length 0 (None) or 1 (Some), an f64 quotient by *)
(* the exact fraction [num, den]. u64 arithmetic is modelled on the        *)
(* naturals: the inputs are bounded far below 2^64.                        *)
(***************************************************************************)
EXTENDS Integers, Sequences, FiniteSets, TLC

VARIABLES
    \* ---- SpecParse
    p_line,          \* the line handed to the parsers
    p_period,        \* <<>> before, <<parse_period_from_header(p_line)>> after
    p_symbol,        \* <<>> before, <<parse_symbol_from_stack_line(p_line)>> after
    \* ---- SpecCalc
    c_num,           \* a count: the callee's, or the numerator
    c_den,           \* a count: the root's, or the denominator
    c_period,        \* the callee's period sum
    c_root_period,   \* the root's period sum
    c_freq,          \* Option<u64>: the frequency basis
    c_percent,       \* <<>> before, <<safe_percent(c_num, c_den)>> after
    c_ms,            \* <<>> before, <<estimate_ms(c_num, c_freq)>> after
    c_entry,         \* <<>> before, <<the CalleeSummary of the inputs>> after
    \* ---- args (Args, lines 15-30)
    root_symbol,
    callee_symbols,
    \* ---- locals of analyze_function_focus_with_perf_script (lines 327-341)
    current_symbols,
    current_period,
    in_sample,
    counters,
    a_pc,            \* "idle", "reading" (in the for loop), "drained" (after line 386)
    consumed,        \* the lines read from the child's stdout so far
    blocks,          \* history: one record per call of finalize_sample_block
    headers,         \* history: number of lines consumed as a sample header
    \* ---- main (lines 419-568)
    perf_files,
    file_idx,
    pc,
    suite,
    benchmark,
    benchmark_key,
    sample_record_count,
    parsed_event_record_count,
    file_meta,
    focus,
    first_event_name,
    first_sample_freq_hz,
    first_sampling_policy,
    benchmarks,
    suites_acc,
    suites,
    summary,
    out_dir,         \* "absent" or "created"
    out_file,        \* <<>>, <<the serialized PerfSummary>> or <<a partial file>>
    result,          \* <<>> while running, <<"Ok">>, <<"Err", kind, file index>>
                     \* or <<"Panic", kind, file index>>
    children,        \* per spawned perf script: [file, status, code]
    metas,           \* history: the FileMeta countRecords returned, per file
    trace            \* history: the sub-steps taken, <<step, file index, "ok" or "err">>

calcVars == <<c_num, c_den, c_period, c_root_period, c_freq, c_percent, c_ms, c_entry>>
parseVars == <<p_line, p_period, p_symbol, calcVars>>
argVars == <<root_symbol, callee_symbols>>
accVars == <<current_symbols, current_period, in_sample, counters>>
streamVars == <<accVars, a_pc, consumed, blocks, headers>>
fileVars == <<suite, benchmark, benchmark_key, sample_record_count,
              parsed_event_record_count, file_meta, focus>>
firstVars == <<first_event_name, first_sample_freq_hz, first_sampling_policy>>
rollupVars == <<benchmarks, suites_acc>>
outVars == <<suites, summary, out_dir, out_file>>
mainVars == <<perf_files, file_idx, pc, fileVars, firstVars, rollupVars, outVars,
              result, children, metas, trace>>
vars == <<parseVars, argVars, streamVars, mainVars>>

(***************************************************************************)
(* Bounds                                                                  *)
(***************************************************************************)
\* longest line handed to the parsers in SpecParse
MaxLineLen == 4
\* longest perf-script output analysed line by line in SpecStream
MaxLines == 4
\* most capture files found under perf_dir in Spec
MaxFiles == 2
\* largest count handed to estimate_ms and safe_percent in SpecCalc
MaxCount == 20

(***************************************************************************)
(* str: the operations of Rust's str the program uses                      *)
(***************************************************************************)
None == <<>>
Some(v) == <<v>>
is_none(o) == o = <<>>
is_some(o) == o # <<>>
unwrap(o) == o[1]
unwrap_or(o, d) == IF o = <<>> THEN d ELSE o[1]

CharAt(s, i) == SubSeq(s, i, i)

\* char::is_whitespace on the characters the inputs are built from
is_whitespace(c) == c \in {" ", "\t"}

Digits == {"0", "1", "2", "3", "4", "5", "6", "7", "8", "9"}

DigitValue(c) ==
    CASE c = "0" -> 0 [] c = "1" -> 1 [] c = "2" -> 2 [] c = "3" -> 3
      [] c = "4" -> 4 [] c = "5" -> 5 [] c = "6" -> 6 [] c = "7" -> 7
      [] c = "8" -> 8 [] c = "9" -> 9

\* s[from..] with a 1-based from
str_from(s, from) == SubSeq(s, from, Len(s))

\* str::find(pat): the 1-based index of the first occurrence, 0 for None
str_find(s, pat) ==
    LET hits == {i \in 1..(Len(s) - Len(pat) + 1) : SubSeq(s, i, i + Len(pat) - 1) = pat}
    IN  IF hits = {} THEN 0 ELSE CHOOSE i \in hits : \A j \in hits : i <= j

\* str::contains(pat); the empty pattern occurs in every string
str_contains(s, pat) ==
    IF Len(pat) = 0 THEN TRUE
    ELSE \E i \in 1..(Len(s) - Len(pat) + 1) : SubSeq(s, i, i + Len(pat) - 1) = pat

\* index of the first non-whitespace character at or after i, Len(s)+1 if none
SkipWs(s, i) ==
    LET stops == {j \in i..Len(s) : ~is_whitespace(CharAt(s, j))}
    IN  IF stops = {} THEN Len(s) + 1 ELSE CHOOSE j \in stops : \A k \in stops : j <= k

\* index of the first whitespace character at or after i, Len(s)+1 if none
TokenEnd(s, i) ==
    LET stops == {j \in i..Len(s) : is_whitespace(CharAt(s, j))}
    IN  IF stops = {} THEN Len(s) + 1 ELSE CHOOSE j \in stops : \A k \in stops : j <= k

trim_start(s) == str_from(s, SkipWs(s, 1))

\* str::trim().is_empty()
trim_is_empty(s) == SkipWs(s, 1) > Len(s)

RECURSIVE SplitFrom(_, _)
SplitFrom(s, i) ==
    LET a == SkipWs(s, i)
    IN  IF a > Len(s) THEN <<>>
        ELSE LET b == TokenEnd(s, a)
             IN  <<SubSeq(s, a, b - 1)>> \o SplitFrom(s, b)

\* str::split_whitespace(), collected
split_whitespace(s) == SplitFrom(s, 1)

\* Iterator::next() on a collected iterator
next(it) == IF it = <<>> THEN None ELSE Some(it[1])

RECURSIVE DigitsValue(_, _)
DigitsValue(s, acc) ==
    IF Len(s) = 0 THEN acc
    ELSE DigitsValue(str_from(s, 2), acc * 10 + DigitValue(CharAt(s, 1)))

\* str::parse::<u64>(): an optional '+', then one or more decimal digits
parse_u64(s) ==
    LET body == IF Len(s) > 0 /\ CharAt(s, 1) = "+" THEN str_from(s, 2) ELSE s
    IN  IF Len(body) = 0 THEN None
        ELSE IF \E i \in 1..Len(body) : CharAt(body, i) \notin Digits THEN None
        ELSE Some(DigitsValue(body, 0))

\* the part of s before the first "+0x": str::split("+0x").next()
split_first(s, pat) ==
    LET at == str_find(s, pat)
    IN  IF at = 0 THEN s ELSE SubSeq(s, 1, at - 1)

(***************************************************************************)
(* Stack-line parsers (lines 236-260)                                      *)
(***************************************************************************)
\* variant: an unparsable token defaults to 0 instead of 1
parse_period_default_zero(header_line) ==
    LET colon_idx == str_find(header_line, ":")
    IN  IF colon_idx = 0 THEN 1
        ELSE LET after_ts == trim_start(str_from(header_line, colon_idx + 1))
                 first_token == unwrap_or(next(split_whitespace(after_ts)), "1")
             IN  unwrap_or(parse_u64(first_token), 0)

parse_period_from_header(header_line) ==
    LET colon_idx == str_find(header_line, ":")
    IN  IF colon_idx = 0 THEN 1
        ELSE LET after_ts == trim_start(str_from(header_line, colon_idx + 1))
                 first_token == unwrap_or(next(split_whitespace(after_ts)), "1")
             IN  unwrap_or(parse_u64(first_token), 1)

\* variant: a line with a single token yields that token as its symbol
parse_symbol_single_token(line) ==
    LET trimmed == trim_start(line)
    IN  IF Len(trimmed) = 0 THEN None
        ELSE LET parts == split_whitespace(trimmed)
             IN  IF Len(parts) < 2 THEN Some(split_first(parts[1], "+0x"))
                 ELSE Some(split_first(parts[2], "+0x"))

parse_symbol_from_stack_line(line) ==
    LET trimmed == trim_start(line)
    IN  IF Len(trimmed) = 0 THEN None
        ELSE LET parts == split_whitespace(trimmed)
             IN  IF Len(parts) < 2 THEN None
                 ELSE Some(split_first(parts[2], "+0x"))

(***************************************************************************)
(* Attribution (lines 262-305) and the sample block accumulator            *)
(* (lines 327-386)                                                         *)
(***************************************************************************)
\* lines 331-341
new_counters(callees) ==
    [root_sample_record_count |-> 0,
     root_period_sum |-> 0,
     callees |-> [i \in 1..Len(callees) |-> [sample_record_count |-> 0, period_sum |-> 0]]]

\* lines 273-283; frame 1 is the leaf (index 0 of the Vec)
root_positions_of(symbols, root) ==
    {idx \in 1..Len(symbols) : str_contains(symbols[idx], root)}

\* variant: the comparison reversed, callers of the root are counted
callee_above_root(symbols, callee, root_positions) ==
    \E frame_idx \in 1..Len(symbols) :
        /\ str_contains(symbols[frame_idx], callee)
        /\ \E root_idx \in root_positions : frame_idx > root_idx

\* variant: a callee frame at the root's own position counts as under it
callee_at_or_under_root(symbols, callee, root_positions) ==
    \E frame_idx \in 1..Len(symbols) :
        /\ str_contains(symbols[frame_idx], callee)
        /\ \E root_idx \in root_positions : frame_idx <= root_idx

\* lines 293-298
callee_under_root(symbols, callee, root_positions) ==
    \E frame_idx \in 1..Len(symbols) :
        /\ str_contains(symbols[frame_idx], callee)
        /\ \E root_idx \in root_positions : frame_idx < root_idx

\* variant: the callee loop is not gated by a root match
finalize_sample_block_ungated(symbols, period, root, callees, cnt) ==
    LET root_positions == root_positions_of(symbols, root)
        matched == root_positions # {}
    IN  [root_sample_record_count |-> cnt.root_sample_record_count + (IF matched THEN 1 ELSE 0),
         root_period_sum |-> cnt.root_period_sum + (IF matched THEN period ELSE 0),
         callees |->
             [callee_idx \in 1..Len(callees) |->
                 IF \E frame_idx \in 1..Len(symbols) :
                        /\ str_contains(symbols[frame_idx], callees[callee_idx])
                        /\ (matched => \E root_idx \in root_positions : frame_idx < root_idx)
                 THEN [sample_record_count |-> cnt.callees[callee_idx].sample_record_count + 1,
                       period_sum |-> cnt.callees[callee_idx].period_sum + period]
                 ELSE cnt.callees[callee_idx]]]

\* variant: the root is counted once per frame that names it
finalize_sample_block_per_frame(symbols, period, root, callees, cnt) ==
    IF symbols = <<>> THEN cnt
    ELSE LET root_positions == root_positions_of(symbols, root)
         IN  IF root_positions = {} THEN cnt
             ELSE [root_sample_record_count |->
                       cnt.root_sample_record_count + Cardinality(root_positions),
                   root_period_sum |->
                       cnt.root_period_sum + period * Cardinality(root_positions),
                   callees |->
                       [callee_idx \in 1..Len(callees) |->
                           IF callee_under_root(symbols, callees[callee_idx], root_positions)
                           THEN [sample_record_count |->
                                     cnt.callees[callee_idx].sample_record_count + 1,
                                 period_sum |-> cnt.callees[callee_idx].period_sum + period]
                           ELSE cnt.callees[callee_idx]]]

\* lines 262-305: the counters after the call
finalize_sample_block(symbols, period, root, callees, cnt) ==
    IF symbols = <<>> THEN cnt
    ELSE LET root_positions == root_positions_of(symbols, root)
         IN  IF root_positions = {} THEN cnt
             ELSE [root_sample_record_count |-> cnt.root_sample_record_count + 1,
                   root_period_sum |-> cnt.root_period_sum + period,
                   callees |->
                       [callee_idx \in 1..Len(callees) |->
                           IF callee_under_root(symbols, callees[callee_idx], root_positions)
                           THEN [sample_record_count |->
                                     cnt.callees[callee_idx].sample_record_count + 1,
                                 period_sum |-> cnt.callees[callee_idx].period_sum + period]
                           ELSE cnt.callees[callee_idx]]]

\* lines 327-341: the accumulator when the loop is entered
new_accumulator(callees) ==
    [current_symbols |-> <<>>,
     current_period |-> 1,
     in_sample |-> FALSE,
     counters |-> new_counters(callees)]

\* variant: the line that opens a sample is also read as its first frame
line_step_header_as_frame(st, line, root, callees) ==
    IF trim_is_empty(line)
    THEN IF st.in_sample
         THEN [current_symbols |-> <<>>,
               current_period |-> 1,
               in_sample |-> FALSE,
               counters |-> finalize_sample_block(st.current_symbols, st.current_period,
                                                  root, callees, st.counters)]
         ELSE st
    ELSE LET symbol == parse_symbol_from_stack_line(line)
             pushed == IF is_some(symbol)
                       THEN [st EXCEPT !.current_symbols = Append(@, unwrap(symbol))]
                       ELSE st
         IN  IF ~st.in_sample
             THEN [pushed EXCEPT !.current_period = parse_period_from_header(line),
                                 !.in_sample = TRUE]
             ELSE pushed

\* variant: the period of the finalized block is kept after a blank line
line_step_keep_period(st, line, root, callees) ==
    IF trim_is_empty(line)
    THEN IF st.in_sample
         THEN [current_symbols |-> <<>>,
               current_period |-> st.current_period,
               in_sample |-> FALSE,
               counters |-> finalize_sample_block(st.current_symbols, st.current_period,
                                                  root, callees, st.counters)]
         ELSE st
    ELSE IF ~st.in_sample
         THEN [st EXCEPT !.current_period = parse_period_from_header(line),
                         !.in_sample = TRUE]
         ELSE LET symbol == parse_symbol_from_stack_line(line)
              IN  IF is_some(symbol)
                  THEN [st EXCEPT !.current_symbols = Append(@, unwrap(symbol))]
                  ELSE st

\* variant: a blank line finalizes the block and the sample stays open
line_step_sample_stays_open(st, line, root, callees) ==
    IF trim_is_empty(line)
    THEN IF st.in_sample
         THEN [current_symbols |-> <<>>,
               current_period |-> 1,
               in_sample |-> TRUE,
               counters |-> finalize_sample_block(st.current_symbols, st.current_period,
                                                  root, callees, st.counters)]
         ELSE st
    ELSE IF ~st.in_sample
         THEN [st EXCEPT !.current_period = parse_period_from_header(line),
                         !.in_sample = TRUE]
         ELSE LET symbol == parse_symbol_from_stack_line(line)
              IN  IF is_some(symbol)
                  THEN [st EXCEPT !.current_symbols = Append(@, unwrap(symbol))]
                  ELSE st

\* lines 351-375: one iteration of the for loop
line_step(st, line, root, callees) ==
    IF trim_is_empty(line)
    THEN IF st.in_sample
         THEN [current_symbols |-> <<>>,
               current_period |-> 1,
               in_sample |-> FALSE,
               counters |-> finalize_sample_block(st.current_symbols, st.current_period,
                                                  root, callees, st.counters)]
         ELSE st
    ELSE IF ~st.in_sample
         THEN [st EXCEPT !.current_period = parse_period_from_header(line),
                         !.in_sample = TRUE]
         ELSE LET symbol == parse_symbol_from_stack_line(line)
              IN  IF is_some(symbol)
                  THEN [st EXCEPT !.current_symbols = Append(@, unwrap(symbol))]
                  ELSE st

\* variant: the block in progress at end of stream is dropped
eof_step_no_flush(st, root, callees) == st

\* lines 378-386: after the loop
eof_step(st, root, callees) ==
    IF st.in_sample
    THEN [st EXCEPT !.counters = finalize_sample_block(st.current_symbols, st.current_period,
                                                       root, callees, st.counters)]
    ELSE st

RECURSIVE fold_lines(_, _, _, _)
fold_lines(st, lines, root, callees) ==
    IF lines = <<>> THEN st
    ELSE fold_lines(line_step(st, Head(lines), root, callees), Tail(lines), root, callees)

\* lines 327-386: the accumulator after the whole output was read
run_lines(lines, root, callees) ==
    eof_step(fold_lines(new_accumulator(callees), lines, root, callees), root, callees)

(***************************************************************************)
(* Paths (std::path) and capture-file discovery (lines 114-167)            *)
(***************************************************************************)
\* A path is the sequence of its components; a component is its bytes and
\* whether they are valid UTF-8.
Comp(name) == [name |-> name, utf8 |-> TRUE]
RawComp(name) == [name |-> name, utf8 |-> FALSE]

\* OsStr::to_str
to_str(c) == IF c.utf8 THEN Some(c.name) ELSE None

\* the component names of the inputs in byte order (0xFF sorts last)
CompOrder == <<"a.perf.data", "b.perf.data", "c.perf.data", "d", "notes.txt",
               "perf", "s1", "s2", "x.perf.data", "<FF>e">>

CompRank(c) == CHOOSE i \in 1..Len(CompOrder) : CompOrder[i] = c.name

\* Ord for Path: component-wise, a proper prefix first
RECURSIVE path_lt(_, _)
path_lt(a, b) ==
    IF b = <<>> THEN FALSE
    ELSE IF a = <<>> THEN TRUE
    ELSE IF CompRank(Head(a)) # CompRank(Head(b)) THEN CompRank(Head(a)) < CompRank(Head(b))
    ELSE path_lt(Tail(a), Tail(b))

\* Vec::sort of a set of distinct paths
RECURSIVE sort_paths(_)
sort_paths(S) ==
    IF S = {} THEN <<>>
    ELSE LET least == CHOOSE a \in S : \A b \in S \ {a} : path_lt(a, b)
         IN  <<least>> \o sort_paths(S \ {least})

\* str::ends_with
ends_with(s, suffix) ==
    /\ Len(s) >= Len(suffix)
    /\ SubSeq(s, Len(s) - Len(suffix) + 1, Len(s)) = suffix

\* str::strip_suffix
strip_suffix(s, suffix) ==
    IF ends_with(s, suffix) THEN Some(SubSeq(s, 1, Len(s) - Len(suffix))) ELSE None

\* Path::strip_prefix
strip_prefix(path, base) ==
    IF Len(path) >= Len(base) /\ SubSeq(path, 1, Len(base)) = base
    THEN Some(SubSeq(path, Len(base) + 1, Len(path)))
    ELSE None

\* [String]::join
RECURSIVE join(_, _)
join(segs, sep) ==
    IF segs = <<>> THEN ""
    ELSE IF Len(segs) = 1 THEN segs[1]
    ELSE segs[1] \o sep \o join(Tail(segs), sep)

\* String::from_utf8_lossy on the bytes of a component: every byte that is not
\* valid UTF-8 (written "<FF>" in a component's name) becomes the replacement
\* character U+FFFD (written "<U+FFFD>"); the other bytes are kept.
RECURSIVE from_utf8_lossy(_)
from_utf8_lossy(bytes) ==
    IF Len(bytes) = 0 THEN ""
    ELSE IF Len(bytes) >= 4 /\ SubSeq(bytes, 1, 4) = "<FF>"
         THEN "<U+FFFD>" \o from_utf8_lossy(SubSeq(bytes, 5, Len(bytes)))
         ELSE SubSeq(bytes, 1, 1) \o from_utf8_lossy(SubSeq(bytes, 2, Len(bytes)))

\* OsStr::to_string_lossy
to_string_lossy(c) == IF c.utf8 THEN c.name ELSE from_utf8_lossy(c.name)

\* Path::display().to_string(): the lossy rendering of the path
display(path) == join([i \in 1..Len(path) |-> to_string_lossy(path[i])], "/")

\* variant: the files are left in descending order
RECURSIVE paths_descending(_)
paths_descending(S) ==
    IF S = {} THEN <<>>
    ELSE LET greatest == CHOOSE a \in S : \A b \in S \ {a} : path_lt(b, a)
         IN  <<greatest>> \o paths_descending(S \ {greatest})

find_perf_files_descending(entries) ==
    paths_descending({e.path : e \in {x \in entries :
        /\ x.is_file
        /\ LET name == to_str(x.path[Len(x.path)])
           IN  IF is_some(name) THEN ends_with(unwrap(name), ".perf.data") ELSE FALSE}})

\* lines 114-129: entries of the walked tree are [path, is_file]
find_perf_files(entries) ==
    sort_paths({e.path : e \in {x \in entries :
        /\ x.is_file
        /\ LET name == to_str(x.path[Len(x.path)])
           IN  IF is_some(name) THEN ends_with(unwrap(name), ".perf.data") ELSE FALSE}})

\* lines 153-162: the UTF-8 directory segments below the suite directory
RECURSIVE benchmark_segments_of(_)
benchmark_segments_of(comps) ==
    IF comps = <<>> THEN <<>>
    ELSE LET seg == to_str(Head(comps))
         IN  (IF is_some(seg) /\ Len(unwrap(seg)) > 0 THEN <<unwrap(seg)>> ELSE <<>>)
             \o benchmark_segments_of(Tail(comps))

\* variant: the directories between the suite and the file are left out of
\* the benchmark name
benchmark_identity_flat(perf_dir, perf_data_path) ==
    LET rel_opt == strip_prefix(perf_data_path, perf_dir)
    IN  IF is_none(rel_opt) THEN <<"Err", "is not under">>
        ELSE
        LET rel == unwrap(rel_opt)
            suite_opt == IF rel = <<>> THEN None ELSE to_str(rel[1])
            file_name_opt == IF rel = <<>> THEN None ELSE to_str(rel[Len(rel)])
        IN  IF is_none(suite_opt) THEN <<"Err", "failed to parse suite name from perf file path">>
            ELSE IF is_none(file_name_opt) THEN <<"Err", "failed to parse perf file name">>
            ELSE
            LET file_name == unwrap(file_name_opt)
                bench == unwrap_or(strip_suffix(file_name, ".perf.data"), file_name)
            IN  <<"Ok", unwrap(suite_opt), bench, unwrap(suite_opt) \o "/" \o bench>>

\* lines 131-167: <<"Ok", suite, benchmark, benchmark_key>> or <<"Err", context>>
benchmark_identity(perf_dir, perf_data_path) ==
    LET rel_opt == strip_prefix(perf_data_path, perf_dir)
    IN  IF is_none(rel_opt) THEN <<"Err", "is not under">>
        ELSE
        LET rel == unwrap(rel_opt)
            suite_opt == IF rel = <<>> THEN None ELSE to_str(rel[1])
            file_name_opt == IF rel = <<>> THEN None ELSE to_str(rel[Len(rel)])
        IN  IF is_none(suite_opt) THEN <<"Err", "failed to parse suite name from perf file path">>
            ELSE IF is_none(file_name_opt) THEN <<"Err", "failed to parse perf file name">>
            ELSE
            LET file_name == unwrap(file_name_opt)
                benchmark_base == unwrap_or(strip_suffix(file_name, ".perf.data"), file_name)
                rel_parent == SubSeq(rel, 1, Len(rel) - 1)
                benchmark_segments ==
                    benchmark_segments_of(SubSeq(rel_parent, 2, Len(rel_parent)))
                        \o <<benchmark_base>>
                bench == join(benchmark_segments, "/")
            IN  <<"Ok", unwrap(suite_opt), bench, unwrap(suite_opt) \o "/" \o bench>>

(***************************************************************************)
(* Capture-file metadata and record counts (lines 169-234)                 *)
(***************************************************************************)
\* u64 as decimal text (Display)
RECURSIVE u64_to_string(_)
u64_to_string(n) ==
    LET d == CHOOSE c \in Digits : DigitValue(c) = n % 10
    IN  IF n < 10 THEN d ELSE u64_to_string(n \div 10) \o d

\* lines 169-175: <<sample_freq_hz, sampling_policy>>
sampling_policy_to_parts(policy) ==
    CASE policy[1] = "Frequency" -> <<Some(policy[2]), "frequency">>
      [] policy[1] = "Period" -> <<None, "period(" \o u64_to_string(policy[2]) \o ")">>
      [] policy[1] = "NoSampling" -> <<None, "none">>

\* lines 188-201
file_meta_of(attrs) ==
    IF attrs # <<>>
    THEN LET parts == sampling_policy_to_parts(attrs[1].sampling_policy)
         IN  [event_name |-> attrs[1].name,
              sample_freq_hz |-> parts[1],
              sampling_policy |-> parts[2]]
    ELSE [event_name |-> None, sample_freq_hz |-> None, sampling_policy |-> "unknown"]

\* lines 206-231: <<"Ok", sample_record_count, parsed_event_record_count>> or <<"Err", context>>
RECURSIVE count_records(_, _, _)
count_records(records, samples, parsed) ==
    IF records = <<>> THEN <<"Ok", samples, parsed>>
    ELSE CASE Head(records) = "read_error" -> <<"Err", "failed to read record">>
           [] Head(records) = "other" -> count_records(Tail(records), samples, parsed)
           [] Head(records) = "bad_event" -> <<"Err", "failed to parse event record">>
           [] Head(records) = "sample" -> count_records(Tail(records), samples + 1, parsed + 1)
           [] Head(records) = "event" -> count_records(Tail(records), samples, parsed + 1)

\* lines 177-234: <<"Ok", sample_record_count, parsed_event_record_count, meta>>
\* or <<"Err", context>>
count_sample_records_and_meta(capture) ==
    IF ~capture.opens THEN <<"Err", "failed to open">>
    ELSE IF ~capture.parses THEN <<"Err", "failed to parse">>
    ELSE LET counted == count_records(capture.records, 0, 0)
         IN  IF counted[1] = "Err" THEN counted
             ELSE <<"Ok", counted[2], counted[3], file_meta_of(capture.attrs)>>

(***************************************************************************)
(* Derived numbers (lines 405-417)                                         *)
(***************************************************************************)
RECURSIVE gcd(_, _)
gcd(a, b) == IF b = 0 THEN a ELSE gcd(b, a % b)

\* the value num/den of an f64 division, in lowest terms
quotient(num, den) ==
    LET g == gcd(num, den)
    IN  [num |-> num \div g, den |-> den \div g]

\* variant: every known frequency is divided by
estimate_ms_unfiltered(samples, sample_freq_hz) ==
    IF is_some(sample_freq_hz)
    THEN Some([num |-> samples * 1000, den |-> unwrap(sample_freq_hz)])
    ELSE None

\* lines 405-409
estimate_ms(samples, sample_freq_hz) ==
    IF is_some(sample_freq_hz) /\ unwrap(sample_freq_hz) > 0
    THEN Some(quotient(samples * 1000, unwrap(sample_freq_hz)))
    ELSE None

\* variant: the division is made whatever the denominator
safe_percent_unclamped(num, den) == [num |-> num * 100, den |-> den]

\* lines 411-417
safe_percent(num, den) ==
    IF den = 0 THEN [num |-> 0, den |-> 1] ELSE quotient(num * 100, den)

(***************************************************************************)
(* Rollup (lines 440-544)                                                  *)
(***************************************************************************)
\* lines 440-448: `if first.is_none() { first = observed }`
keep_first(first, observed) == IF is_none(first) THEN observed ELSE first

\* MetricSummary, lines 450-454 and 506-510
metric_summary(samples, period, freq) ==
    [sample_record_count |-> samples,
     period_sum |-> period,
     estimated_ms |-> estimate_ms(samples, freq)]

\* CalleeSummary, lines 459-472 and 513-520
callee_summary(symbol, samples, period, root_samples, root_period, freq) ==
    [symbol |-> symbol,
     sample_record_count |-> samples,
     period_sum |-> period,
     estimated_ms |-> estimate_ms(samples, freq),
     percent_of_root_samples |-> safe_percent(samples, root_samples),
     percent_of_root_period |-> safe_percent(period, root_period)]

\* variant: the callee entries take their counters in reverse index order
benchmark_summary_reversed(su, be, file, samples, parsed, fc, callees, freq) ==
    [suite |-> su,
     benchmark |-> be,
     file |-> file,
     sample_record_count |-> samples,
     parsed_event_record_count |-> parsed,
     root |-> metric_summary(fc.root_sample_record_count, fc.root_period_sum, freq),
     callees |-> [idx \in 1..Len(callees) |->
                     callee_summary(callees[idx],
                                    fc.callees[Len(callees) + 1 - idx].sample_record_count,
                                    fc.callees[Len(callees) + 1 - idx].period_sum,
                                    fc.root_sample_record_count,
                                    fc.root_period_sum,
                                    freq)]]

\* lines 450-486: the BenchmarkSummary of one file
benchmark_summary(su, be, file, samples, parsed, fc, callees, freq) ==
    [suite |-> su,
     benchmark |-> be,
     file |-> file,
     sample_record_count |-> samples,
     parsed_event_record_count |-> parsed,
     root |-> metric_summary(fc.root_sample_record_count, fc.root_period_sum, freq),
     callees |-> [idx \in 1..Len(callees) |->
                     callee_summary(callees[idx],
                                    fc.callees[idx].sample_record_count,
                                    fc.callees[idx].period_sum,
                                    fc.root_sample_record_count,
                                    fc.root_period_sum,
                                    freq)]]

\* BTreeMap::insert: the entry of an existing key is replaced
map_insert(map, key, value) ==
    [k \in DOMAIN map \cup {key} |-> IF k = key THEN value ELSE map[k]]

\* lines 488-494: the accumulator or_insert_with creates
new_suite_accumulator(callees) ==
    [benchmark_count |-> 0,
     root_samples |-> 0,
     root_period |-> 0,
     callee_samples |-> [i \in 1..Len(callees) |-> 0],
     callee_periods |-> [i \in 1..Len(callees) |-> 0]]

\* lines 488-501: suites_acc after one file
accumulate_suite(acc_map, su, fc, callees) ==
    LET acc == IF su \in DOMAIN acc_map THEN acc_map[su] ELSE new_suite_accumulator(callees)
    IN  map_insert(acc_map, su,
            [benchmark_count |-> acc.benchmark_count + 1,
             root_samples |-> acc.root_samples + fc.root_sample_record_count,
             root_period |-> acc.root_period + fc.root_period_sum,
             callee_samples |-> [idx \in 1..Len(callees) |->
                 acc.callee_samples[idx] + fc.callees[idx].sample_record_count],
             callee_periods |-> [idx \in 1..Len(callees) |->
                 acc.callee_periods[idx] + fc.callees[idx].period_sum]])

\* lines 504-530: the SuiteSummary of every accumulated suite
suite_summaries(acc_map, callees, freq) ==
    [suite_name \in DOMAIN acc_map |->
        LET acc == acc_map[suite_name]
        IN  [benchmark_count |-> acc.benchmark_count,
             root |-> metric_summary(acc.root_samples, acc.root_period, freq),
             callees |-> [idx \in 1..Len(callees) |->
                             callee_summary(callees[idx],
                                            acc.callee_samples[idx],
                                            acc.callee_periods[idx],
                                            acc.root_samples,
                                            acc.root_period,
                                            freq)]]]

\* variant: total_files is the number of benchmark entries
perf_summary_counts_entries(perf_dir, files, root, callees, ev, freq, policy, su, be) ==
    [meta |-> [perf_dir |-> display(perf_dir),
               event_name |-> ev,
               sample_freq_hz |-> freq,
               sampling_policy |-> policy,
               root_symbol |-> root,
               callee_symbols |-> callees,
               total_files |-> Cardinality(DOMAIN be)],
     suites |-> su,
     benchmarks |-> be]

\* lines 532-544
perf_summary(perf_dir, files, root, callees, ev, freq, policy, su, be) ==
    [meta |-> [perf_dir |-> display(perf_dir),
               event_name |-> ev,
               sample_freq_hz |-> freq,
               sampling_policy |-> policy,
               root_symbol |-> root,
               callee_symbols |-> callees,
               total_files |-> Len(files)],
     suites |-> su,
     benchmarks |-> be]

(***************************************************************************)
(* Inputs                                                                  *)
(***************************************************************************)
\* the pieces the lines of SpecParse are concatenated from
LinePieces == {" ", "\t", ":", "0", "12", "+7", "x9", "f+0x1"}

RECURSIVE LinesUpTo(_)
LinesUpTo(n) ==
    IF n = 0 THEN {""}
    ELSE LET shorter == LinesUpTo(n - 1)
         IN  shorter \cup {l \o piece : l \in shorter, piece \in LinePieces}

\* the lines perf script can print in SpecStream
LinePool ==
    {"",
     " \t",
     "bench 7 1.5: 3 cycles:",
     "bench 7 2.5: 0 cycles:",
     "\t1f rt_run+0x10 (/bin/b)",
     "\t2a c_leaf+0x4 (/bin/b)",
     "\t3b main+0x0 (/bin/b)",
     "\t4c:zz"}

\* the frequency bases of SpecCalc: unknown, zero and positive ones
FreqPool == {None, Some(0), Some(1), Some(3), Some(250), Some(1000)}

\* the period sums of SpecCalc
PeriodPool == {0, 5}

\* --root-symbol and --callee-symbol
ConfigPool ==
    {[root |-> "rt_", callees |-> <<"c_leaf", "rt_run">>],
     [root |-> "rt_", callees |-> <<"c_", "c_">>]}

\* args.perf_dir
PerfDir == <<Comp("perf")>>

InDir(names) == PerfDir \o names

\* the entries WalkDir can yield under perf_dir
TreePool ==
    {[path |-> InDir(<<Comp("s1"), Comp("a.perf.data")>>), is_file |-> TRUE],
     [path |-> InDir(<<Comp("s1"), Comp("d"), Comp("a.perf.data")>>), is_file |-> TRUE],
     [path |-> InDir(<<Comp("s1"), RawComp("<FF>e"), Comp("a.perf.data")>>), is_file |-> TRUE],
     [path |-> InDir(<<Comp("s2"), Comp("b.perf.data")>>), is_file |-> TRUE],
     [path |-> InDir(<<RawComp("<FF>e"), Comp("b.perf.data")>>), is_file |-> TRUE],
     [path |-> InDir(<<Comp("c.perf.data")>>), is_file |-> TRUE],
     [path |-> InDir(<<Comp("s1"), Comp("notes.txt")>>), is_file |-> TRUE],
     [path |-> InDir(<<Comp("s2"), Comp("x.perf.data")>>), is_file |-> FALSE]}

Attr(name, policy) == [name |-> name, sampling_policy |-> policy]

\* what the record reader can find in a capture file
CapturePool ==
    {[opens |-> FALSE, parses |-> FALSE, attrs |-> <<>>, records |-> <<>>],
     [opens |-> TRUE, parses |-> TRUE,
      attrs |-> <<Attr(Some("cycles"), <<"Frequency", 1000>>)>>,
      records |-> <<"sample", "event", "other", "sample">>],
     [opens |-> TRUE, parses |-> TRUE,
      attrs |-> <<Attr(Some("cpu-clock"), <<"Frequency", 250>>),
                  Attr(Some("cycles"), <<"Frequency", 1000>>)>>,
      records |-> <<"sample">>],
     [opens |-> TRUE, parses |-> TRUE,
      attrs |-> <<Attr(None, <<"Period", 5>>)>>,
      records |-> <<"event", "sample">>],
     [opens |-> TRUE, parses |-> TRUE, attrs |-> <<>>, records |-> <<>>],
     [opens |-> TRUE, parses |-> TRUE,
      attrs |-> <<Attr(Some("cycles"), <<"Frequency", 1000>>)>>,
      records |-> <<"sample", "bad_event", "sample">>]}

\* what perf script can print for one capture file in Spec
StreamPool ==
    {<<>>,
     <<"bench 7 1.5: 3 cycles:",
       "\t2a c_leaf+0x4 (/bin/b)", "\t1f rt_run+0x10 (/bin/b)", "\t3b main+0x0 (/bin/b)",
       "">>,
     <<"bench 7 1.5: 3 cycles:",
       "\t1f rt_run+0x10 (/bin/b)", "\t3b main+0x0 (/bin/b)",
       "",
       "bench 7 2.5: 12 cycles:",
       "\t1f rt_run+0x10 (/bin/b)", "\t2a c_leaf+0x4 (/bin/b)">>,
     <<"bench 7 1.5: 3 cycles:", "\t3b main+0x0 (/bin/b)", "">>}

(***************************************************************************)
(* Initial states                                                          *)
(***************************************************************************)
CalcIdle ==
    /\ c_num = 0
    /\ c_den = 0
    /\ c_period = 0
    /\ c_root_period = 0
    /\ c_freq = None
    /\ c_percent = None
    /\ c_ms = None
    /\ c_entry = None

ParseIdle ==
    /\ p_line = ""
    /\ p_period = None
    /\ p_symbol = None
    /\ CalcIdle

StreamIdle ==
    /\ current_symbols = <<>>
    /\ current_period = 1
    /\ in_sample = FALSE
    /\ counters = new_counters(<<>>)
    /\ a_pc = "idle"
    /\ consumed = <<>>
    /\ blocks = <<>>
    /\ headers = 0

\* lines 423-428 and the per-file locals before the first iteration
MainStart ==
    /\ file_idx = 1
    /\ suite = ""
    /\ benchmark = ""
    /\ benchmark_key = ""
    /\ sample_record_count = 0
    /\ parsed_event_record_count = 0
    /\ file_meta = file_meta_of(<<>>)
    /\ focus = new_counters(<<>>)
    /\ first_event_name = None
    /\ first_sample_freq_hz = None
    /\ first_sampling_policy = None
    /\ benchmarks = <<>>
    /\ suites_acc = <<>>
    /\ suites = <<>>
    /\ summary = None
    /\ out_dir = "absent"
    /\ out_file = None
    /\ result = None
    /\ children = <<>>
    /\ metas = <<>>
    /\ trace = <<>>

MainIdle ==
    /\ perf_files = <<>>
    /\ pc = "idle"
    /\ MainStart

InitParse ==
    /\ p_line \in LinesUpTo(MaxLineLen)
    /\ p_period = None
    /\ p_symbol = None
    /\ CalcIdle
    /\ root_symbol = ""
    /\ callee_symbols = <<>>
    /\ StreamIdle
    /\ MainIdle

InitCalc ==
    /\ p_line = ""
    /\ p_period = None
    /\ p_symbol = None
    /\ c_num \in 0..MaxCount
    /\ c_den \in 0..MaxCount
    /\ c_period \in PeriodPool
    /\ c_root_period \in PeriodPool
    /\ c_freq \in FreqPool
    /\ c_percent = None
    /\ c_ms = None
    /\ c_entry = None
    /\ root_symbol = ""
    /\ callee_symbols = <<>>
    /\ StreamIdle
    /\ MainIdle

InitStream ==
    /\ ParseIdle
    /\ \E cfg \in ConfigPool :
        /\ root_symbol = cfg.root
        /\ callee_symbols = cfg.callees
        /\ current_symbols = <<>>
        /\ current_period = 1
        /\ in_sample = FALSE
        /\ counters = new_counters(cfg.callees)
    /\ a_pc = "reading"
    /\ consumed = <<>>
    /\ blocks = <<>>
    /\ headers = 0
    /\ MainIdle

\* lines 420-428
Init ==
    /\ ParseIdle
    /\ \E cfg \in ConfigPool :
        /\ root_symbol = cfg.root
        /\ callee_symbols = cfg.callees
    /\ StreamIdle
    /\ \E entries \in SUBSET TreePool :
        /\ Cardinality(entries) <= MaxFiles
        /\ perf_files = find_perf_files(entries)
    /\ pc = IF perf_files = <<>> THEN "summary" ELSE "identity"
    /\ MainStart

(***************************************************************************)
(* SpecParse: the parsers applied to a line                                *)
(***************************************************************************)
ParseHeader ==
    /\ p_period = None
    /\ p_period' = Some(parse_period_from_header(p_line))
    /\ UNCHANGED <<p_line, p_symbol, calcVars, argVars, streamVars, mainVars>>

ParseFrame ==
    /\ p_symbol = None
    /\ p_symbol' = Some(parse_symbol_from_stack_line(p_line))
    /\ UNCHANGED <<p_line, p_period, calcVars, argVars, streamVars, mainVars>>

NextParse == ParseHeader \/ ParseFrame

SpecParse == InitParse /\ [][NextParse]_vars

(***************************************************************************)
(* SpecCalc: the report's derived numbers computed from drawn inputs       *)
(***************************************************************************)
\* lines 411-417
ApplySafePercent ==
    /\ c_percent = None
    /\ c_percent' = Some(safe_percent(c_num, c_den))
    /\ UNCHANGED <<c_num, c_den, c_period, c_root_period, c_freq, c_ms, c_entry,
                   p_line, p_period, p_symbol, argVars, streamVars, mainVars>>

\* lines 405-409
ApplyEstimateMs ==
    /\ c_ms = None
    /\ c_ms' = Some(estimate_ms(c_num, c_freq))
    /\ UNCHANGED <<c_num, c_den, c_period, c_root_period, c_freq, c_percent, c_entry,
                   p_line, p_period, p_symbol, argVars, streamVars, mainVars>>

\* lines 459-472 and 513-520: one CalleeSummary of the report
ApplyCalleeSummary ==
    /\ c_entry = None
    /\ c_entry' = Some(callee_summary("callee", c_num, c_period, c_den, c_root_period, c_freq))
    /\ UNCHANGED <<c_num, c_den, c_period, c_root_period, c_freq, c_percent, c_ms,
                   p_line, p_period, p_symbol, argVars, streamVars, mainVars>>

NextCalc == ApplySafePercent \/ ApplyEstimateMs \/ ApplyCalleeSummary

SpecCalc == InitCalc /\ [][NextCalc]_vars

(***************************************************************************)
(* SpecStream: the loop of analyze_function_focus_with_perf_script         *)
(***************************************************************************)
Accumulator ==
    [current_symbols |-> current_symbols,
     current_period |-> current_period,
     in_sample |-> in_sample,
     counters |-> counters]

SetAccumulator(st) ==
    /\ current_symbols' = st.current_symbols
    /\ current_period' = st.current_period
    /\ in_sample' = st.in_sample
    /\ counters' = st.counters

\* the record kept of one call of finalize_sample_block
Block(after, at_eof) ==
    [symbols |-> current_symbols,
     period |-> current_period,
     before |-> counters,
     after |-> after,
     at_eof |-> at_eof]

\* lines 343-376: one line read from the child's stdout
ReadLine(line) ==
    /\ a_pc = "reading"
    /\ Len(consumed) < MaxLines
    /\ LET st == line_step(Accumulator, line, root_symbol, callee_symbols)
       IN  /\ SetAccumulator(st)
           /\ blocks' = IF trim_is_empty(line) /\ in_sample
                        THEN Append(blocks, Block(st.counters, FALSE))
                        ELSE blocks
    /\ headers' = IF ~trim_is_empty(line) /\ ~in_sample THEN headers + 1 ELSE headers
    /\ consumed' = Append(consumed, line)
    /\ UNCHANGED <<a_pc, parseVars, argVars, mainVars>>

\* lines 351-365
ReadBlankLine == \E line \in LinePool : trim_is_empty(line) /\ ReadLine(line)

\* lines 367-371
ReadHeaderLine == \E line \in LinePool : ~trim_is_empty(line) /\ ~in_sample /\ ReadLine(line)

\* lines 373-375
ReadFrameLine == \E line \in LinePool : ~trim_is_empty(line) /\ in_sample /\ ReadLine(line)

\* lines 378-386: the iterator is exhausted
EndOfStream ==
    /\ a_pc = "reading"
    /\ LET st == eof_step(Accumulator, root_symbol, callee_symbols)
       IN  /\ SetAccumulator(st)
           /\ blocks' = IF in_sample THEN Append(blocks, Block(st.counters, TRUE)) ELSE blocks
    /\ a_pc' = "drained"
    /\ UNCHANGED <<consumed, headers, parseVars, argVars, mainVars>>

NextStream == ReadBlankLine \/ ReadHeaderLine \/ ReadFrameLine \/ EndOfStream

SpecStream == InitStream /\ [][NextStream]_vars

(***************************************************************************)
(* Spec: main (lines 419-568), one sub-step of the per-file loop per step  *)
(***************************************************************************)
\* variant: an error leaves the loop but not main
Abort_break(kind) ==
    /\ result' = <<"Err", kind, file_idx>>
    /\ pc' = "summary"
    /\ UNCHANGED file_idx

\* variant: a ReadError skips the file and the loop goes on
Abort_skip_unreadable(kind) ==
    IF kind = "ReadError"
    THEN /\ file_idx' = file_idx + 1
         /\ pc' = IF file_idx' > Len(perf_files) THEN "summary" ELSE "identity"
         /\ UNCHANGED result
    ELSE /\ result' = <<"Err", kind, file_idx>>
         /\ pc' = "failed"
         /\ UNCHANGED file_idx

\* `?` on an Err: main returns it
Abort(kind) ==
    /\ result' = <<"Err", kind, file_idx>>
    /\ pc' = "failed"
    /\ UNCHANGED file_idx

\* the history entry of a sub-step and how it ended
Step(name, outcome) == trace' = Append(trace, <<name, file_idx, outcome>>)

\* line 431
Identity ==
    /\ pc = "identity"
    /\ LET id == benchmark_identity(PerfDir, perf_files[file_idx])
       IN  IF id[1] = "Err"
           THEN /\ Abort("IdentityError")
                /\ Step("identity", "err")
                /\ UNCHANGED <<suite, benchmark, benchmark_key>>
           ELSE /\ suite' = id[2]
                /\ benchmark' = id[3]
                /\ benchmark_key' = id[4]
                /\ pc' = "count"
                /\ UNCHANGED <<result, file_idx>>
                /\ Step("identity", "ok")
    /\ UNCHANGED <<perf_files, sample_record_count, parsed_event_record_count,
                   file_meta, focus, firstVars, rollupVars, outVars, children, metas,
                   parseVars, argVars, streamVars>>

\* variant: a capture file that cannot be read is analysed all the same
CountRecords_unchecked ==
    /\ pc = "count"
    /\ \E capture \in CapturePool :
        LET counted == count_sample_records_and_meta(capture)
        IN  IF counted[1] = "Err"
            THEN /\ pc' = "spawn"
                 /\ Step("count", "err")
                 /\ UNCHANGED <<sample_record_count, parsed_event_record_count, file_meta,
                                metas, result, file_idx>>
            ELSE /\ sample_record_count' = counted[2]
                 /\ parsed_event_record_count' = counted[3]
                 /\ file_meta' = counted[4]
                 /\ metas' = Append(metas, counted[4])
                 /\ pc' = "spawn"
                 /\ UNCHANGED <<result, file_idx>>
                 /\ Step("count", "ok")
    /\ UNCHANGED <<perf_files, suite, benchmark, benchmark_key, focus,
                   firstVars, rollupVars, outVars, children,
                   parseVars, argVars, streamVars>>

\* lines 432-433
CountRecords ==
    /\ pc = "count"
    /\ \E capture \in CapturePool :
        LET counted == count_sample_records_and_meta(capture)
        IN  IF counted[1] = "Err"
            THEN /\ Abort("ReadError")
                 /\ Step("count", "err")
                 /\ UNCHANGED <<sample_record_count, parsed_event_record_count, file_meta,
                                metas>>
            ELSE /\ sample_record_count' = counted[2]
                 /\ parsed_event_record_count' = counted[3]
                 /\ file_meta' = counted[4]
                 /\ metas' = Append(metas, counted[4])
                 /\ pc' = "spawn"
                 /\ UNCHANGED <<result, file_idx>>
                 /\ Step("count", "ok")
    /\ UNCHANGED <<perf_files, suite, benchmark, benchmark_key, focus,
                   firstVars, rollupVars, outVars, children,
                   parseVars, argVars, streamVars>>

\* variant: the accumulator is set up for the first file only and kept as
\* the previous analysis left it for the others
Spawn_shared_accumulator ==
    /\ pc = "spawn"
    /\ \E started \in BOOLEAN :
        IF started
        THEN /\ children' = Append(children,
                                   [file |-> file_idx, status |-> "running", code |-> None])
             /\ IF file_idx = 1
                THEN SetAccumulator(new_accumulator(callee_symbols))
                ELSE UNCHANGED accVars
             /\ a_pc' = "reading"
             /\ consumed' = <<>>
             /\ pc' = "drain"
             /\ UNCHANGED <<result, file_idx>>
             /\ Step("spawn", "ok")
        ELSE /\ Abort("ToolError")
             /\ Step("spawn", "err")
             /\ UNCHANGED <<children, accVars, a_pc, consumed>>
    /\ UNCHANGED <<perf_files, fileVars, firstVars, rollupVars, outVars, metas,
                   blocks, headers, parseVars, argVars>>

\* lines 312-341: perf script is started and the accumulator set up
Spawn ==
    /\ pc = "spawn"
    /\ \E started \in BOOLEAN :
        IF started
        THEN /\ children' = Append(children,
                                   [file |-> file_idx, status |-> "running", code |-> None])
             /\ SetAccumulator(new_accumulator(callee_symbols))
             /\ a_pc' = "reading"
             /\ consumed' = <<>>
             /\ pc' = "drain"
             /\ UNCHANGED <<result, file_idx>>
             /\ Step("spawn", "ok")
        ELSE /\ Abort("ToolError")
             /\ Step("spawn", "err")
             /\ UNCHANGED <<children, accVars, a_pc, consumed>>
    /\ UNCHANGED <<perf_files, fileVars, firstVars, rollupVars, outVars, metas,
                   blocks, headers, parseVars, argVars>>

\* lines 343-386: the child's stdout is read to its end, or to a line that
\* cannot be read as text, by the accumulator the spawn step set up
Drain ==
    /\ pc = "drain"
    /\ \E stream \in StreamPool, readable \in BOOLEAN :
        /\ consumed' = stream
        /\ IF readable
           THEN /\ SetAccumulator(eof_step(fold_lines(Accumulator, stream,
                                                      root_symbol, callee_symbols),
                                           root_symbol, callee_symbols))
                /\ a_pc' = "drained"
                /\ pc' = "wait"
                /\ UNCHANGED <<result, file_idx>>
                /\ Step("drain", "ok")
           ELSE /\ SetAccumulator(fold_lines(Accumulator, stream,
                                             root_symbol, callee_symbols))
                /\ a_pc' = "idle"
                /\ Abort("ToolError")
                /\ Step("drain", "err")
    /\ UNCHANGED <<perf_files, fileVars, firstVars, rollupVars, outVars, children,
                   metas, blocks, headers, parseVars, argVars>>

\* variant: the exit status is not looked at
status_always_success(status) == TRUE

\* line 394: ExitStatus::success
status_success(status) == status = 0

\* lines 388-402: the child is awaited (the wait itself can fail); Ok(counters)
\* only on a zero status
Wait ==
    /\ pc = "wait"
    /\ \E awaited \in BOOLEAN, status \in {0, 1} :
        IF ~awaited
        THEN /\ status = 0
             /\ Abort("ToolError")
             /\ Step("wait", "err")
             /\ UNCHANGED <<children, focus>>
        ELSE /\ children' = [children EXCEPT ![Len(children)].status = "exited",
                                             ![Len(children)].code = Some(status)]
             /\ IF status_success(status)
                THEN /\ focus' = counters
                     /\ pc' = "rollup"
                     /\ UNCHANGED <<result, file_idx>>
                     /\ Step("wait", "ok")
                ELSE /\ Abort("ToolError")
                     /\ Step("wait", "err")
                     /\ UNCHANGED focus
    /\ a_pc' = "idle"
    /\ UNCHANGED <<perf_files, suite, benchmark, benchmark_key,
                   sample_record_count, parsed_event_record_count, file_meta,
                   firstVars, rollupVars, outVars, metas,
                   accVars, consumed, blocks, headers, parseVars, argVars>>

\* lines 440-501: the rest of the loop body, and the loop's next iteration
Rollup ==
    /\ pc = "rollup"
    /\ first_event_name' = keep_first(first_event_name, file_meta.event_name)
    /\ first_sample_freq_hz' = keep_first(first_sample_freq_hz, file_meta.sample_freq_hz)
    /\ first_sampling_policy' = keep_first(first_sampling_policy, Some(file_meta.sampling_policy))
    /\ benchmarks' = map_insert(benchmarks, benchmark_key,
            benchmark_summary(suite, benchmark, display(perf_files[file_idx]),
                              sample_record_count, parsed_event_record_count,
                              focus, callee_symbols, first_sample_freq_hz'))
    /\ suites_acc' = accumulate_suite(suites_acc, suite, focus, callee_symbols)
    /\ file_idx' = file_idx + 1
    /\ pc' = IF file_idx' > Len(perf_files) THEN "summary" ELSE "identity"
    /\ Step("rollup", "ok")
    /\ UNCHANGED <<perf_files, fileVars, outVars, result, children, metas,
                   parseVars, argVars, streamVars>>

\* the sum of two fractions
frac_add(x, y) == quotient(x.num * y.den + y.num * x.den, x.den * y.den)

\* the sum of the fractions f[k], k in keys
RECURSIVE frac_sum(_, _)
frac_sum(f, keys) ==
    IF keys = {} THEN [num |-> 0, den |-> 1]
    ELSE LET k == CHOOSE x \in keys : TRUE
         IN  frac_add(f[k], frac_sum(f, keys \ {k}))

\* variant: a suite's percentages are the sums of its benchmarks' percentages
BuildSummary_percent_sums ==
    /\ pc = "summary"
    /\ suites' =
          [s \in DOMAIN suites_acc |->
              LET keys == {k \in DOMAIN benchmarks : benchmarks[k].suite = s}
                  entry == suite_summaries(suites_acc, callee_symbols, first_sample_freq_hz)[s]
              IN  [entry EXCEPT !.callees =
                      [idx \in 1..Len(callee_symbols) |->
                          [entry.callees[idx] EXCEPT
                              !.percent_of_root_samples =
                                  frac_sum([k \in keys |->
                                      benchmarks[k].callees[idx].percent_of_root_samples], keys),
                              !.percent_of_root_period =
                                  frac_sum([k \in keys |->
                                      benchmarks[k].callees[idx].percent_of_root_period], keys)]]]]
    /\ summary' = Some(perf_summary(PerfDir, perf_files, root_symbol, callee_symbols,
                                    first_event_name, first_sample_freq_hz,
                                    first_sampling_policy, suites', benchmarks))
    /\ pc' = "mkdir"
    /\ Step("summary", "ok")
    /\ UNCHANGED <<perf_files, file_idx, fileVars, firstVars, rollupVars, out_dir, out_file,
                   result, children, metas, parseVars, argVars, streamVars>>

\* lines 504-544
BuildSummary ==
    /\ pc = "summary"
    /\ suites' = suite_summaries(suites_acc, callee_symbols, first_sample_freq_hz)
    /\ summary' = Some(perf_summary(PerfDir, perf_files, root_symbol, callee_symbols,
                                    first_event_name, first_sample_freq_hz,
                                    first_sampling_policy, suites', benchmarks))
    /\ pc' = "mkdir"
    /\ Step("summary", "ok")
    /\ UNCHANGED <<perf_files, file_idx, fileVars, firstVars, rollupVars, out_dir, out_file,
                   result, children, metas, parseVars, argVars, streamVars>>

\* lines 546-553
CreateOutputDir ==
    /\ pc = "mkdir"
    /\ \E created \in BOOLEAN :
        IF created
        THEN /\ out_dir' = "created"
             /\ pc' = "write"
             /\ UNCHANGED <<result, file_idx>>
             /\ Step("mkdir", "ok")
        ELSE /\ Abort("OutputError")
             /\ Step("mkdir", "err")
             /\ UNCHANGED out_dir
    /\ UNCHANGED <<perf_files, fileVars, firstVars, rollupVars, suites, summary,
                   out_file, children, metas, parseVars, argVars, streamVars>>

\* What is at the output path after File::create succeeded and the write or
\* the flush returned Err: the file exists (an older report at the path has
\* been truncated) and holds nothing, a proper prefix of the serialized
\* summary, or all of it: when main returns, BufWriter's Drop writes the
\* buffer once more, and that write can succeed where the flush failed.
FailedWriteContents == {"empty", "prefix", "complete"}
partial_file(contents) == Some([partial |-> contents])
file_after_failed_write(contents, report) ==
    IF contents = "complete" THEN report ELSE partial_file(contents)

\* lines 555-568: File::create, to_writer_pretty, flush and println! are
\* separate effects, and each can fail after the ones before it took place.
WriteOutput ==
    /\ pc = "write"
    /\ \E outcome \in {"create_failed", "write_failed", "print_failed", "written"} :
        CASE outcome = "create_failed" ->
                \* File::create returns Err: nothing is at the path
                /\ Abort("OutputError")
                /\ Step("write", "err")
                /\ UNCHANGED out_file
          [] outcome = "write_failed" ->
                \* to_writer_pretty or flush returns Err after the file was
                \* created: main returns the error, the file stays
                /\ \E contents \in FailedWriteContents :
                       out_file' = file_after_failed_write(contents, summary)
                /\ Abort("OutputError")
                /\ Step("write", "err")
          [] outcome = "print_failed" ->
                \* the file is complete and println! panics ("failed printing
                \* to stdout", exit status 101): main returns neither Ok nor Err
                /\ out_file' = summary
                /\ result' = <<"Panic", "StdoutError", file_idx>>
                /\ pc' = "failed"
                /\ UNCHANGED file_idx
                /\ Step("write", "err")
          [] outcome = "written" ->
                /\ out_file' = summary
                /\ result' = <<"Ok">>
                /\ pc' = "done"
                /\ UNCHANGED file_idx
                /\ Step("write", "ok")
    /\ UNCHANGED <<perf_files, fileVars, firstVars, rollupVars, suites, summary,
                   out_dir, children, metas, parseVars, argVars, streamVars>>

Next ==
    \/ Identity
    \/ CountRecords
    \/ Spawn
    \/ Drain
    \/ Wait
    \/ Rollup
    \/ BuildSummary
    \/ CreateOutputDir
    \/ WriteOutput

Spec == Init /\ [][Next]_vars

(***************************************************************************)
(* Properties                                                              *)
(***************************************************************************)
\* the sum of the values of a function with a finite domain
RECURSIVE SumFn(_)
SumFn(f) ==
    IF DOMAIN f = {} THEN 0
    ELSE LET k == CHOOSE x \in DOMAIN f : TRUE
         IN  f[k] + SumFn([x \in DOMAIN f \ {k} |-> f[x]])

CalleeIdx == 1..Len(callee_symbols)

\* the frames of a block that contain a substring
Matches(symbols, pattern) == {p \in 1..Len(symbols) : str_contains(symbols[p], pattern)}

\* C1: after every prefix of the line stream, every tracked callee's sample
\* count is at most the root sample count and its period sum at most the root
\* period sum.
C1_CalleeWithinRoot ==
    \A i \in CalleeIdx :
        /\ counters.callees[i].sample_record_count <= counters.root_sample_record_count
        /\ counters.callees[i].period_sum <= counters.root_period_sum

\* a callee was counted in a sample, another tracked callee was not
C1_Witness ==
    /\ a_pc = "reading"
    /\ counters.root_sample_record_count = 1
    /\ \E i, j \in CalleeIdx :
        /\ counters.callees[i].sample_record_count = 1
        /\ counters.callees[i].period_sum = counters.root_period_sum
        /\ counters.callees[j].sample_record_count = 0
        /\ counters.root_period_sum > 0

\* the values countRecords returned for the first file processed
FirstMeta == metas[1]

\* C2: the basis of every ms-estimate and the event name, frequency and policy
\* of meta are the values observed on the first file processed, whatever they
\* were.
C2_FirstFileBasis ==
    file_idx > 1 =>
        /\ first_event_name = FirstMeta.event_name
        /\ first_sample_freq_hz = FirstMeta.sample_freq_hz
        /\ first_sampling_policy = Some(FirstMeta.sampling_policy)
        /\ \A k \in DOMAIN benchmarks :
            /\ benchmarks[k].root.estimated_ms =
                   estimate_ms(benchmarks[k].root.sample_record_count, FirstMeta.sample_freq_hz)
            /\ \A i \in CalleeIdx :
                   benchmarks[k].callees[i].estimated_ms =
                       estimate_ms(benchmarks[k].callees[i].sample_record_count,
                                   FirstMeta.sample_freq_hz)
        /\ summary # None =>
            /\ unwrap(summary).meta.event_name = FirstMeta.event_name
            /\ unwrap(summary).meta.sample_freq_hz = FirstMeta.sample_freq_hz
            /\ unwrap(summary).meta.sampling_policy = Some(FirstMeta.sampling_policy)
            /\ \A su \in DOMAIN suites :
                   suites[su].root.estimated_ms =
                       estimate_ms(suites[su].root.sample_record_count, FirstMeta.sample_freq_hz)

\* C3: in the final report every suite entry's root and per-index callee
\* sample counts and period sums are the sums of those fields over the
\* benchmark entries that carry the suite's name.
C3_SuiteSums ==
    summary # None =>
        \A su \in DOMAIN unwrap(summary).suites :
            LET report == unwrap(summary)
                keys == {k \in DOMAIN report.benchmarks : report.benchmarks[k].suite = su}
                entry == report.suites[su]
            IN  /\ entry.root.sample_record_count =
                       SumFn([k \in keys |-> report.benchmarks[k].root.sample_record_count])
                /\ entry.root.period_sum =
                       SumFn([k \in keys |-> report.benchmarks[k].root.period_sum])
                /\ \A i \in CalleeIdx :
                    /\ entry.callees[i].sample_record_count =
                           SumFn([k \in keys |->
                                     report.benchmarks[k].callees[i].sample_record_count])
                    /\ entry.callees[i].period_sum =
                           SumFn([k \in keys |-> report.benchmarks[k].callees[i].period_sum])

\* C4: in a finalized sample that contains the root, a callee's sample count
\* grows by exactly 1 and its period sum by the sample's period iff some frame
\* p containing the callee lies below some root frame r (p < r); otherwise the
\* callee's counters are unchanged.
C4_CalleeUnderRoot ==
    \A n \in 1..Len(blocks) :
        LET b == blocks[n]
            roots == Matches(b.symbols, root_symbol)
        IN  roots # {} =>
                \A i \in CalleeIdx :
                    IF \E p \in Matches(b.symbols, callee_symbols[i]), r \in roots : p < r
                    THEN /\ b.after.callees[i].sample_record_count =
                                b.before.callees[i].sample_record_count + 1
                         /\ b.after.callees[i].period_sum =
                                b.before.callees[i].period_sum + b.period
                    ELSE b.after.callees[i] = b.before.callees[i]

\* a sample with a callee below the root, counted once, and another callee
\* whose only frame is not below any root frame, not counted
C4_Witness ==
    \E n \in 1..Len(blocks) :
        LET b == blocks[n]
            roots == Matches(b.symbols, root_symbol)
        IN  /\ roots # {}
            /\ \E i, j \in CalleeIdx :
                /\ \E p \in Matches(b.symbols, callee_symbols[i]), r \in roots : p < r
                /\ b.after.callees[i].sample_record_count =
                       b.before.callees[i].sample_record_count + 1
                /\ Matches(b.symbols, callee_symbols[j]) # {}
                /\ \A p \in Matches(b.symbols, callee_symbols[j]), r \in roots : p >= r
                /\ b.after.callees[j] = b.before.callees[j]

\* C5: finalizing a sample with no symbols or with no symbol containing the
\* root leaves every counter unchanged.
C5_NoRootNoChange ==
    \A n \in 1..Len(blocks) :
        (blocks[n].symbols = <<>> \/ Matches(blocks[n].symbols, root_symbol) = {})
            => blocks[n].after = blocks[n].before

\* a finalized sample without the root in which a tracked callee occurs, and a
\* finalized sample without symbols
C5_Witness ==
    /\ \E n \in 1..Len(blocks) :
        /\ Matches(blocks[n].symbols, root_symbol) = {}
        /\ \E i \in CalleeIdx : Matches(blocks[n].symbols, callee_symbols[i]) # {}
        /\ blocks[n].after = blocks[n].before
    /\ \E n \in 1..Len(blocks) : blocks[n].symbols = <<>>

\* C6: when the stream ends while InSample, the block in progress is
\* finalized, and the counters are those of the same stream followed by one
\* blank line.
C6_FlushAtEof ==
    (a_pc = "drained" /\ in_sample) =>
        /\ blocks # <<>>
        /\ blocks[Len(blocks)].at_eof
        /\ blocks[Len(blocks)].symbols = current_symbols
        /\ counters = run_lines(Append(consumed, ""), root_symbol, callee_symbols).counters

\* a stream that ended inside a sample whose block was attributed to the root
C6_Witness ==
    /\ a_pc = "drained"
    /\ in_sample
    /\ blocks[Len(blocks)].at_eof
    /\ blocks[Len(blocks)].before.root_sample_record_count = 0
    /\ counters.root_sample_record_count = 1
    /\ \E i \in CalleeIdx : counters.callees[i].sample_record_count = 1

\* the token after the first colon of a header line, None if there is none
HeaderToken(line) ==
    LET colon == str_find(line, ":")
    IN  IF colon = 0 THEN None ELSE next(split_whitespace(str_from(line, colon + 1)))

\* C7: parsePeriodHeader returns an integer >= 1 for every header line, and 1
\* when the line has no colon or the token after the first colon does not
\* parse.
C7_PeriodAtLeastOne ==
    p_period # None =>
        /\ unwrap(p_period) >= 1
        /\ (\A i \in 1..Len(p_line) : CharAt(p_line, i) # ":") => unwrap(p_period) = 1
        /\ (HeaderToken(p_line) # None /\ parse_u64(unwrap(HeaderToken(p_line))) = None)
               => unwrap(p_period) = 1

\* C7 as amended: parsePeriodHeader returns an integer >= 0; it returns 1 when
\* the line has no colon or the token after the first colon does not parse,
\* the token's value when it parses, and so 0 exactly for a token that is a
\* decimal zero.
C7_PeriodNonNegative ==
    p_period # None =>
        LET v == unwrap(p_period)
            token == HeaderToken(p_line)
        IN  /\ v >= 0
            /\ (\A i \in 1..Len(p_line) : CharAt(p_line, i) # ":") => v = 1
            /\ (token # None /\ parse_u64(unwrap(token)) = None) => v = 1
            /\ (token # None /\ parse_u64(unwrap(token)) # None)
                   => v = unwrap(parse_u64(unwrap(token)))
            /\ v = 0 <=> (/\ token # None
                          /\ \E k \in 1..Len(unwrap(token)) : CharAt(unwrap(token), k) = "0"
                          /\ \A k \in 1..Len(unwrap(token)) :
                                 \/ CharAt(unwrap(token), k) = "0"
                                 \/ (k = 1 /\ CharAt(unwrap(token), k) = "+"))

\* a header whose period token is a zero
C7_Witness ==
    /\ p_period = Some(0)
    /\ HeaderToken(p_line) = Some("0")

\* the sub-steps that can raise an IdentityError, ReadError or ToolError
FileSteps == {"identity", "count", "spawn", "drain", "wait"}

ErrorKind(step) ==
    CASE step = "identity" -> "IdentityError"
      [] step = "count" -> "ReadError"
      [] step \in {"spawn", "drain", "wait"} -> "ToolError"

\* the condition of C8 on one state of the run
AbortedOrComplete ==
    /\ \A n \in 1..Len(trace) :
        (trace[n][1] \in FileSteps /\ trace[n][3] = "err") =>
            /\ n = Len(trace)
            /\ pc = "failed"
            /\ ~ENABLED Next
            /\ result = <<"Err", ErrorKind(trace[n][1]), trace[n][2]>>
            /\ file_idx = trace[n][2]
            /\ \A c \in 1..Len(children) : children[c].file <= trace[n][2]
            /\ out_dir = "absent"
            /\ out_file = None
    /\ (out_dir = "created" \/ out_file # None) =>
        /\ file_idx = Len(perf_files) + 1
        /\ \A i \in 1..Len(perf_files) :
               \A step \in FileSteps : \E n \in 1..Len(trace) : trace[n] = <<step, i, "ok">>
        /\ \A n \in 1..Len(trace) : trace[n][1] \in FileSteps => trace[n][3] = "ok"

\* C8: when the processing of a file fails, the run aborts with the error: no
\* later step is taken, no later file is processed, no output directory or
\* file is created; the output is written only after every file was processed
\* successfully.
\* It holds in every state of every run.
C8_FatalErrorAborts == []AbortedOrComplete

\* the first of two files failed after its output had been attributed
C8_Witness ==
    /\ Len(perf_files) = 2
    /\ result = <<"Err", "ToolError", 1>>
    /\ counters.root_sample_record_count > 0
    /\ pc = "failed"

\* C9: when perf script exits with a non-zero status, the analysis returns a
\* ToolError and its counters are dropped: the process is not spawned again
\* for the file and no benchmark or suite entry is made from it.
C9_NonZeroExitFails ==
    \A c \in 1..Len(children) :
        (children[c].code # None /\ unwrap(children[c].code) # 0) =>
            LET i == children[c].file
            IN  /\ result = <<"Err", "ToolError", i>>
                /\ pc = "failed"
                /\ c = Len(children)
                /\ Cardinality({d \in 1..Len(children) : children[d].file = i}) = 1
                /\ \A k \in DOMAIN benchmarks : benchmarks[k].file # display(perf_files[i])
                /\ SumFn([su \in DOMAIN suites_acc |-> suites_acc[su].benchmark_count]) = i - 1
                /\ summary = None

\* a non-zero exit after every line was read and attributed to the root
C9_Witness ==
    /\ children # <<>>
    /\ children[Len(children)].code = Some(1)
    /\ a_pc = "idle"
    /\ counters.root_sample_record_count > 0
    /\ consumed # <<>>

\* C10: a ReadError raised by countRecords aborts that file only: once the run
\* has ended, the files after it in the sorted file set have been processed.
C10_ReadErrorSkipsFile ==
    pc \in {"failed", "done"} =>
        \A n \in 1..Len(trace) :
            trace[n] = <<"count", trace[n][2], "err">> =>
                \A j \in (trace[n][2] + 1)..Len(perf_files) :
                    \E m \in 1..Len(trace) : trace[m][1] = "count" /\ trace[m][2] = j

\* C10 as amended: a ReadError raised by countRecords aborts the whole run: it
\* is the last step taken, perf script is not spawned for that file, no later
\* file is processed and nothing is written.
C10_ReadErrorAbortsRun ==
    \A n \in 1..Len(trace) :
        (trace[n][1] = "count" /\ trace[n][3] = "err") =>
            /\ n = Len(trace)
            /\ pc = "failed"
            /\ result = <<"Err", "ReadError", trace[n][2]>>
            /\ \A c \in 1..Len(children) : children[c].file < trace[n][2]
            /\ \A m \in 1..Len(trace) : trace[m][2] <= trace[n][2]
            /\ out_file = None

\* countRecords failed on the first of two files
C10_Witness ==
    /\ Len(perf_files) = 2
    /\ trace # <<>>
    /\ trace[Len(trace)] = <<"count", 1, "err">>
    /\ result = <<"Err", "ReadError", 1>>

\* the line has no colon, no token after it, or a token that is no u64
PeriodUnparsable(line) ==
    \/ is_none(HeaderToken(line))
    \/ is_none(parse_u64(unwrap(HeaderToken(line))))

\* the number of whitespace-separated tokens of a line
TokenCount(line) == Len(split_whitespace(line))

\* this step reads the line from the stream
LineRead(line) ==
    /\ a_pc = "reading"
    /\ consumed' = Append(consumed, line)

(***************************************************************************)
(* C11: a malformed line never stops the reading.  A header line whose     *)
(* period cannot be parsed opens a sample of period 1, a frame line with   *)
(* fewer than two whitespace-separated tokens appends no symbol, and in    *)
(* both cases the counters are untouched and the accumulator keeps         *)
(* reading.                                                                *)
(***************************************************************************)
C11_MalformedLinesTolerated ==
    [][\A line \in LinePool :
          (LineRead(line) /\ ~trim_is_empty(line)) =>
              /\ a_pc' = "reading"
              /\ counters' = counters
              /\ blocks' = blocks
              /\ (~in_sample /\ PeriodUnparsable(line)) =>
                     /\ in_sample'
                     /\ current_period' = 1
                     /\ current_symbols' = current_symbols
              /\ (in_sample /\ TokenCount(line) < 2) =>
                     /\ in_sample'
                     /\ current_period' = current_period
                     /\ current_symbols' = current_symbols]_vars

\* a header with an unparsable period and a one-token frame line were read,
\* and the frame line after them was still collected
C11_Witness ==
    /\ Len(consumed) = 3
    /\ is_some(HeaderToken(consumed[1])) /\ PeriodUnparsable(consumed[1])
    /\ TokenCount(consumed[2]) = 1
    /\ TokenCount(consumed[3]) >= 2
    /\ in_sample
    /\ current_period = 1
    /\ current_symbols = <<"rt_run">>
    /\ a_pc = "reading"

\* the list has one entry per configured callee, named in the configured order
CalleesNamed(list) ==
    /\ Len(list) = Len(callee_symbols)
    /\ \A i \in CalleeIdx : list[i].symbol = callee_symbols[i]

\* entry i of the list carries the counters of index i
CalleesCarry(list, samples, periods) ==
    \A i \in CalleeIdx :
        /\ list[i].sample_record_count = samples[i]
        /\ list[i].period_sum = periods[i]

\* the latest step of main
LastStep == IF trace = <<>> THEN <<"none", 0, "ok">> ELSE trace[Len(trace)]

(***************************************************************************)
(* C12: in every benchmark entry and every suite entry the callees list is *)
(* as long as the configured callee list, its i-th element names the i-th  *)
(* configured callee, and it carries the counters accumulated at index i:  *)
(* those of the file's analysis for a benchmark entry, those of the        *)
(* suite's accumulator for a suite entry.                                  *)
(***************************************************************************)
C12_CalleesFollowConfiguration ==
    /\ \A k \in DOMAIN benchmarks : CalleesNamed(benchmarks[k].callees)
    /\ \A s \in DOMAIN suites :
          /\ CalleesNamed(suites[s].callees)
          /\ CalleesCarry(suites[s].callees,
                          suites_acc[s].callee_samples, suites_acc[s].callee_periods)
    /\ LastStep[1] = "rollup" =>
          LET of_file == [f \in {"sample_record_count", "period_sum"} |->
                             [i \in CalleeIdx |-> focus.callees[i][f]]]
          IN  /\ CalleesCarry(benchmarks[benchmark_key].callees,
                              of_file["sample_record_count"], of_file["period_sum"])
              /\ suites_acc[suite].benchmark_count = 1 =>
                    /\ suites_acc[suite].callee_samples = of_file["sample_record_count"]
                    /\ suites_acc[suite].callee_periods = of_file["period_sum"]

\* a written report whose benchmark and suite entry list two different
\* callees in the configured order with different counters
C12_Witness ==
    /\ pc = "done"
    /\ callee_symbols = <<"c_leaf", "rt_run">>
    /\ \E k \in DOMAIN benchmarks :
          /\ benchmarks[k].callees[1].symbol = "c_leaf"
          /\ benchmarks[k].callees[1].sample_record_count = 1
          /\ benchmarks[k].callees[1].period_sum = 3
          /\ benchmarks[k].callees[2].symbol = "rt_run"
          /\ benchmarks[k].callees[2].sample_record_count = 0
          /\ suites[benchmarks[k].suite].callees[1].sample_record_count = 1
          /\ suites[benchmarks[k].suite].callees[2].sample_record_count = 0
    /\ unwrap(out_file).benchmarks = benchmarks

\* the files whose loop iteration ran to its end
Processed == {trace[n][2] : n \in {m \in 1..Len(trace) : trace[m][1] = "rollup"}}

\* the first path segment of a file under the scan root
FirstSegment(path) == path[Len(PerfDir) + 1].name

\* the key each capture file of the tree is to be reported under
ExpectedKey(path) ==
    CASE path = InDir(<<Comp("s1"), Comp("a.perf.data")>>) -> "s1/a"
      [] path = InDir(<<Comp("s1"), Comp("d"), Comp("a.perf.data")>>) -> "s1/d/a"
      [] path = InDir(<<Comp("s1"), RawComp("<FF>e"), Comp("a.perf.data")>>) -> "s1/a"
      [] path = InDir(<<Comp("s2"), Comp("b.perf.data")>>) -> "s2/b"
      [] path = InDir(<<Comp("c.perf.data")>>) -> "c.perf.data/c"
      [] OTHER -> "?"

\* the files have pairwise distinct keys
DistinctKeys(files) ==
    \A i, j \in files : i # j => ExpectedKey(perf_files[i]) # ExpectedKey(perf_files[j])

\* the files whose first path segment is the suite name
FilesOfSuite(files, s) == {i \in files : FirstSegment(perf_files[i]) = s}

(***************************************************************************)
(* C13: when the files processed so far have pairwise distinct benchmark   *)
(* keys, the benchmarks map has exactly one key per processed file, each   *)
(* key is suite/benchmark of its entry, and the benchmark_count of a suite *)
(* is the number of processed files whose first path segment under the     *)
(* scan root is the suite name.  The maps change when a file's iteration   *)
(* ends and when the report is built: the condition is stated there.       *)
(***************************************************************************)
C13_OneKeyPerFile ==
    LastStep[1] \in {"rollup", "summary"} =>
        LET done == Processed
        IN  DistinctKeys(done) =>
                /\ DOMAIN benchmarks = {ExpectedKey(perf_files[i]) : i \in done}
                /\ Cardinality(DOMAIN benchmarks) = Cardinality(done)
                /\ \A k \in DOMAIN benchmarks :
                      k = benchmarks[k].suite \o "/" \o benchmarks[k].benchmark
                /\ DOMAIN suites_acc = {FirstSegment(perf_files[i]) : i \in done}
                /\ \A s \in DOMAIN suites_acc :
                      suites_acc[s].benchmark_count = Cardinality(FilesOfSuite(done, s))
                /\ is_some(summary) =>
                      /\ DOMAIN unwrap(summary).benchmarks = DOMAIN benchmarks
                      /\ DOMAIN suites = DOMAIN suites_acc
                      /\ \A s \in DOMAIN suites :
                            suites[s].benchmark_count = Cardinality(FilesOfSuite(done, s))

\* a report of two files of one suite, one of them in a sub-directory
C13_Witness ==
    /\ is_some(summary)
    /\ Cardinality(Processed) = 2
    /\ DOMAIN unwrap(summary).benchmarks = {"s1/a", "s1/d/a"}
    /\ unwrap(summary).suites["s1"].benchmark_count = 2

\* the fraction v is a defined number and equals num / den
IsQuotient(v, num, den) == v.den > 0 /\ v.num * den = num * v.den

\* v is the clamped percentage of num in den
PercentOf(v, num, den) ==
    IF den = 0 THEN v.num = 0 /\ v.den > 0 ELSE IsQuotient(v, num * 100, den)

(***************************************************************************)
(* C14: safe_percent(num, den) is exactly 0 when den = 0, whatever num,    *)
(* and num * 100 / den otherwise; so both percent fields of a callee entry *)
(* are defined numbers, 0 when the root count (the root period sum) is 0.  *)
(***************************************************************************)
C14_PercentClamped ==
    /\ is_some(c_percent) => PercentOf(unwrap(c_percent), c_num, c_den)
    /\ is_some(c_entry) =>
          /\ PercentOf(unwrap(c_entry).percent_of_root_samples, c_num, c_den)
          /\ PercentOf(unwrap(c_entry).percent_of_root_period, c_period, c_root_period)

\* safe_percent(5, 0) was computed, and an entry built with a root period
\* sum of 0 under a non-zero callee period sum
C14_Witness ==
    /\ c_num = 5 /\ c_den = 0
    /\ c_percent = Some([num |-> 0, den |-> 1])
    /\ is_some(c_entry)
    /\ c_period = 5 /\ c_root_period = 0
    /\ unwrap(c_entry).percent_of_root_period.num = 0

\* e is the estimate of count samples under the basis freq
EstimateOf(e, count, freq) ==
    /\ is_some(e) <=> (is_some(freq) /\ unwrap(freq) > 0)
    /\ is_some(e) => IsQuotient(unwrap(e), count * 1000, unwrap(freq))

(***************************************************************************)
(* C15: estimate_ms gives a value exactly when the frequency basis is      *)
(* known and greater than 0, and the value is count * 1000 / frequency;    *)
(* with an unknown or zero basis it gives none, for every count.           *)
(***************************************************************************)
C15_EstimateNeedsPositiveBasis ==
    /\ is_some(c_ms) => EstimateOf(unwrap(c_ms), c_num, c_freq)
    /\ is_some(c_entry) => EstimateOf(unwrap(c_entry).estimated_ms, c_num, c_freq)

\* an estimate was asked for a non-zero count under a basis of 0
C15_Witness ==
    /\ c_num = 7
    /\ c_freq = Some(0)
    /\ c_ms = Some(None)
    /\ is_some(c_entry) /\ unwrap(c_entry).estimated_ms = None

(***************************************************************************)
(* C16: the accumulator starts awaiting a header, and a non-blank line     *)
(* read while awaiting a header only opens a sample with the period parsed *)
(* from it: no symbol is collected from it, also when it has the shape of  *)
(* a frame line, and no counter moves.                                     *)
(***************************************************************************)
C16_HeaderNeverAFrame ==
    /\ (a_pc = "reading" /\ consumed = <<>>) => (~in_sample /\ current_symbols = <<>>)
    /\ [][\A line \in LinePool :
            (LineRead(line) /\ ~trim_is_empty(line) /\ ~in_sample) =>
                /\ in_sample'
                /\ current_period' = parse_period_from_header(line)
                /\ current_symbols' = <<>>
                /\ counters' = counters
                /\ blocks' = blocks]_vars

\* a line shaped like a frame was read first and became the header
C16_Witness ==
    /\ Len(consumed) = 1
    /\ is_some(parse_symbol_from_stack_line(consumed[1]))
    /\ Matches(<<unwrap(parse_symbol_from_stack_line(consumed[1]))>>, root_symbol) # {}
    /\ in_sample
    /\ current_symbols = <<>>
    /\ current_period = 1

(***************************************************************************)
(* C17: a blank line read while awaiting a header changes nothing; a blank *)
(* line read inside a sample finalizes the block with the symbols and      *)
(* period collected, and leaves an empty symbol list, period 1 and the     *)
(* accumulator awaiting a header.                                          *)
(***************************************************************************)
C17_BlankLineEffect ==
    [][\A line \in LinePool :
          (LineRead(line) /\ trim_is_empty(line)) =>
              IF ~in_sample
              THEN UNCHANGED <<accVars, blocks>>
              ELSE /\ Len(blocks') = Len(blocks) + 1
                   /\ blocks'[Len(blocks')].symbols = current_symbols
                   /\ blocks'[Len(blocks')].period = current_period
                   /\ counters' = finalize_sample_block(current_symbols, current_period,
                                                        root_symbol, callee_symbols, counters)
                   /\ current_symbols' = <<>>
                   /\ current_period' = 1
                   /\ ~in_sample']_vars

\* a blank line before any header, then a sample of period 3 under the root
\* closed by a whitespace-only line
C17_Witness ==
    /\ Len(consumed) = 4
    /\ consumed[1] = ""
    /\ consumed[4] = " \t"
    /\ Len(blocks) = 1
    /\ blocks[1].symbols # <<>>
    /\ blocks[1].period = 3
    /\ counters.root_period_sum = 3
    /\ ~in_sample /\ current_symbols = <<>> /\ current_period = 1

\* the positions of the header lines of the stream read so far
HeaderLines ==
    {i \in 1..Len(consumed) :
        /\ ~trim_is_empty(consumed[i])
        /\ (i = 1 \/ trim_is_empty(consumed[i - 1]))}

(***************************************************************************)
(* C18: every sample block is finalized exactly once.  The header lines of *)
(* a stream are its non-blank lines that come first or follow a blank      *)
(* line; while reading, the calls of finalize_sample_block are as many as  *)
(* the headers read less the sample still open, and once the stream is     *)
(* drained they are as many as the headers: only the last call can be the  *)
(* one made at end of stream.                                              *)
(***************************************************************************)
C18_FinalizedOnce ==
    /\ headers = Cardinality(HeaderLines)
    /\ a_pc = "reading" =>
          Len(blocks) = Cardinality(HeaderLines) - (IF in_sample THEN 1 ELSE 0)
    /\ a_pc = "drained" => Len(blocks) = Cardinality(HeaderLines)
    /\ \A n \in 1..Len(blocks) :
          blocks[n].at_eof => (n = Len(blocks) /\ a_pc = "drained")

\* two samples, the first closed by a blank line and the second by the end
\* of the stream
C18_Witness ==
    /\ a_pc = "drained"
    /\ Cardinality(HeaderLines) = 2
    /\ Len(blocks) = 2
    /\ ~blocks[1].at_eof
    /\ blocks[2].at_eof
    /\ blocks[1].symbols # <<>>

(***************************************************************************)
(* C19: a finalized sample with the root in one or more of its frames adds *)
(* exactly 1 to the root sample count and exactly its period to the root   *)
(* period sum, however many frames name the root.                          *)
(***************************************************************************)
C19_RootCountedOncePerSample ==
    \A n \in 1..Len(blocks) :
        Matches(blocks[n].symbols, root_symbol) # {} =>
            /\ blocks[n].after.root_sample_record_count =
                   blocks[n].before.root_sample_record_count + 1
            /\ blocks[n].after.root_period_sum =
                   blocks[n].before.root_period_sum + blocks[n].period

\* a sample of period 3 with the root in two frames
C19_Witness ==
    \E n \in 1..Len(blocks) :
        /\ Cardinality(Matches(blocks[n].symbols, root_symbol)) = 2
        /\ blocks[n].period = 3
        /\ blocks[n].after.root_sample_record_count = blocks[n].before.root_sample_record_count + 1
        /\ blocks[n].after.root_period_sum = blocks[n].before.root_period_sum + 3

\* step n of the trace is the named step of file i, and it went well
StepAt(n, name, i) == trace[n] = <<name, i, "ok">>

\* before position n, file i was spawned, then drained, then awaited
Finished(i, n) ==
    \E c \in 1..(n - 1) :
        /\ StepAt(c, "wait", i)
        /\ \E b \in 1..(c - 1) :
              /\ StepAt(b, "drain", i)
              /\ \E a \in 1..(b - 1) : StepAt(a, "spawn", i)

\* the perf scripts spawned and not awaited
Running == {c \in 1..Len(children) : children[c].status = "running"}

(***************************************************************************)
(* C20: the files are visited one at a time in sorted path order.  A step  *)
(* of a later file, or of the report, is taken only after the perf script  *)
(* of every earlier file was spawned, read to the end of its output and    *)
(* awaited, in that order; there is one perf script per visited file, and  *)
(* at most one of them, that of the current file, is not yet awaited.      *)
(* The trace grows by one step per state, so the condition on the steps is *)
(* stated on the latest one.                                               *)
(***************************************************************************)
C20_OneFileAtATime ==
    /\ \A i \in 1..(Len(perf_files) - 1) : path_lt(perf_files[i], perf_files[i + 1])
    /\ trace # <<>> =>
          LET n == Len(trace)
          IN  /\ n > 1 => trace[n - 1][2] <= trace[n][2]
              /\ \A i \in 1..Len(perf_files) : i < trace[n][2] => Finished(i, n)
    /\ \A c \in 1..Len(children) : children[c].file = c
    /\ Cardinality(Running) <= 1
    /\ \A c \in Running : c = file_idx /\ c = Len(children)

\* the perf script of the second file is running, that of the first was
\* awaited
C20_Witness ==
    /\ Len(perf_files) = 2
    /\ Len(children) = 2
    /\ children[1].status = "exited"
    /\ children[2].status = "running"
    /\ pc = "drain"
    /\ file_idx = 2

\* in the trace so far, the identity of file i was derived and then its
\* records were counted
Prepared(i) ==
    \E b \in 1..Len(trace) :
        /\ StepAt(b, "count", i)
        /\ \E a \in 1..(b - 1) : StepAt(a, "identity", i)

\* in the trace so far, file i was prepared and then its analysis spawned
PreparedThenSpawned(i) ==
    \E c \in 1..Len(trace) :
        /\ StepAt(c, "spawn", i)
        /\ \E b \in 1..(c - 1) :
              /\ StepAt(b, "count", i)
              /\ \E a \in 1..(b - 1) : StepAt(a, "identity", i)

(***************************************************************************)
(* C21: the sub-steps of a file run in the order identity, record count,   *)
(* stack analysis.  A perf script is spawned for the current file only     *)
(* after its identity was derived and its records were counted, and the    *)
(* first-file basis, the benchmarks map and the suite accumulators change  *)
(* only after these and the whole analysis (spawn, drain, wait) of the     *)
(* current file went well.                                                 *)
(***************************************************************************)
C21_SubStepsInOrder ==
    [][/\ Len(children') > Len(children) =>
             /\ children'[Len(children')].file = file_idx
             /\ Prepared(file_idx)
       /\ (firstVars' # firstVars \/ rollupVars' # rollupVars) =>
             /\ PreparedThenSpawned(file_idx)
             /\ Finished(file_idx, Len(trace) + 1)]_vars

\* the second file went through all its sub-steps and was rolled up
C21_Witness ==
    /\ LastStep = <<"rollup", 2, "ok">>
    /\ Len(children) = 2
    /\ Cardinality(DOMAIN benchmarks) = 2
    /\ Cardinality(DOMAIN suites_acc) = 2

\* the suite entry carries the percentages and estimates of these counts
SuiteDerived(entry, root_samples, root_period, callee_samples, callee_periods, freq) ==
    /\ EstimateOf(entry.root.estimated_ms, root_samples, freq)
    /\ \A i \in CalleeIdx :
          /\ PercentOf(entry.callees[i].percent_of_root_samples, callee_samples[i], root_samples)
          /\ PercentOf(entry.callees[i].percent_of_root_period, callee_periods[i], root_period)
          /\ EstimateOf(entry.callees[i].estimated_ms, callee_samples[i], freq)

\* the keys of the benchmark entries of a suite
KeysOfSuite(s) == {k \in DOMAIN benchmarks : benchmarks[k].suite = s}

(***************************************************************************)
(* C22: the suite entries are made once, when every file was processed,    *)
(* and their percentages and ms-estimates are those of the suite's         *)
(* accumulated counts: summed callee count * 100 / summed root count, 0 on *)
(* a zero sum.  With distinct benchmark keys these are the sums over the   *)
(* suite's benchmark entries.                                              *)
(***************************************************************************)
C22_SuiteDerivedFromSums ==
    [][suites' # suites =>
          /\ is_none(summary) /\ is_some(summary')
          /\ file_idx > Len(perf_files)
          /\ DOMAIN suites' = DOMAIN suites_acc
          /\ \A s \in DOMAIN suites' :
                /\ SuiteDerived(suites'[s], suites_acc[s].root_samples,
                                suites_acc[s].root_period, suites_acc[s].callee_samples,
                                suites_acc[s].callee_periods, first_sample_freq_hz)
                /\ DistinctKeys(Processed) =>
                      LET keys == KeysOfSuite(s)
                          total(f) == SumFn([k \in keys |-> f[k]])
                      IN  SuiteDerived(suites'[s],
                              total([k \in keys |-> benchmarks[k].root.sample_record_count]),
                              total([k \in keys |-> benchmarks[k].root.period_sum]),
                              [i \in CalleeIdx |-> total([k \in keys |->
                                  benchmarks[k].callees[i].sample_record_count])],
                              [i \in CalleeIdx |-> total([k \in keys |->
                                  benchmarks[k].callees[i].period_sum])],
                              first_sample_freq_hz)]_vars

\* a suite of two benchmarks whose callee is at 100 percent in one and at 0
\* in the other, and at a third of the root in the suite
C22_Witness ==
    /\ is_some(summary)
    /\ \E s \in DOMAIN suites, i \in CalleeIdx :
          /\ suites[s].benchmark_count = 2
          /\ suites[s].callees[i].percent_of_root_samples = [num |-> 100, den |-> 3]
          /\ \E j, k \in KeysOfSuite(s) :
                /\ benchmarks[j].callees[i].percent_of_root_samples = [num |-> 100, den |-> 1]
                /\ benchmarks[k].callees[i].percent_of_root_samples = [num |-> 0, den |-> 1]

(***************************************************************************)
(* C23: no analysis state passes from one file to the next.  The analysis  *)
(* of every file starts with all counters 0, no symbols, period 1 and no   *)
(* sample open, and the counters it returns are those of the file's own    *)
(* line stream read from that start, whatever was analysed before and      *)
(* however the previous stream ended.                                      *)
(***************************************************************************)
C23_FreshStatePerFile ==
    [][/\ Len(children') > Len(children) =>
             /\ current_symbols' = <<>>
             /\ current_period' = 1
             /\ ~in_sample'
             /\ counters' = new_counters(callee_symbols)
       /\ trace' = Append(trace, <<"wait", file_idx, "ok">>) =>
             focus' = run_lines(consumed, root_symbol, callee_symbols).counters]_vars

\* the first stream ended inside its second sample, and the second file's
\* counters are those of its one sample
C23_Witness ==
    /\ LastStep = <<"wait", 2, "ok">>
    /\ \E k \in DOMAIN benchmarks :
          /\ benchmarks[k].root.sample_record_count = 2
          /\ benchmarks[k].root.period_sum = 15
    /\ Len(consumed) = 5
    /\ focus.root_sample_record_count = 1
    /\ focus.root_period_sum = 3
    /\ focus.callees[1].sample_record_count = 1

(***************************************************************************)
(* C24: in the report's meta the frequency and the sampling policy         *)
(* describe the same capture file: whenever meta.sample_freq_hz is present *)
(* meta.sampling_policy is the label "frequency".                          *)
(***************************************************************************)
C24_MetaDescribesOneFile ==
    is_some(summary) =>
        (is_some(unwrap(summary).meta.sample_freq_hz) =>
            unwrap(summary).meta.sampling_policy = Some("frequency"))

\* the greatest element of a non-empty set of positions
MaxOf(S) == CHOOSE m \in S : \A x \in S : x <= m

\* the callee of index i was counted in the block
Counted(b, i) ==
    b.after.callees[i].sample_record_count = b.before.callees[i].sample_record_count + 1

(***************************************************************************)
(* C25: a frame that names both the root and a callee does not by itself   *)
(* count the callee.  In a sample whose only root frame is at position r,  *)
(* a callee with no frame before r keeps its counters; in any sample with  *)
(* the root, a callee is counted exactly when one of its frames lies       *)
(* strictly before the last root frame (frame 1 is the leaf).              *)
(***************************************************************************)
C25_SharedFrameDoesNotCount ==
    \A n \in 1..Len(blocks), i \in CalleeIdx :
        LET b == blocks[n]
            roots == Matches(b.symbols, root_symbol)
            own == Matches(b.symbols, callee_symbols[i])
        IN  roots # {} =>
                /\ (Cardinality(roots) = 1 /\ \A c \in own : c >= MaxOf(roots)) =>
                       b.after.callees[i] = b.before.callees[i]
                /\ Counted(b, i) <=> \E c \in own : c < MaxOf(roots)
                /\ ~Counted(b, i) => b.after.callees[i] = b.before.callees[i]

\* a sample whose single root frame is the only frame of a callee: the root
\* was counted, the callee was not
C25_Witness ==
    \E n \in 1..Len(blocks), i \in CalleeIdx :
        LET b == blocks[n]
            roots == Matches(b.symbols, root_symbol)
        IN  /\ Cardinality(roots) = 1
            /\ Matches(b.symbols, callee_symbols[i]) = roots
            /\ Len(b.symbols) > 1
            /\ b.after.root_sample_record_count = b.before.root_sample_record_count + 1
            /\ b.after.callees[i] = b.before.callees[i]

(***************************************************************************)
(* C26: in a report that was written in full (the run returned Ok, the     *)
(* final println! failed after the flush, or the flush failed and the      *)
(* buffer was written on drop), meta.total_files is the number             *)
(* of files processed and the sum of benchmark_count over the suite        *)
(* entries, and it is the number of keys of the benchmarks map when no two *)
(* files have the same key.                                                *)
(***************************************************************************)
C26_TotalFiles ==
    (out_file # None /\ out_file = summary) =>
        LET report == unwrap(out_file)
            done == Processed
        IN  /\ done = 1..Len(perf_files)
            /\ report.meta.total_files = Cardinality(done)
            /\ report.meta.total_files =
                   SumFn([s \in DOMAIN report.suites |-> report.suites[s].benchmark_count])
            /\ DistinctKeys(done) =>
                   report.meta.total_files = Cardinality(DOMAIN report.benchmarks)

\* a written report of two files that share one benchmark key
C26_Witness ==
    /\ result = <<"Ok">>
    /\ unwrap(out_file).meta.total_files = 2
    /\ ~DistinctKeys(Processed)
    /\ Cardinality(DOMAIN unwrap(out_file).benchmarks) = 1
    /\ unwrap(out_file).suites["s1"].benchmark_count = 2

\* the blocks finalized so far that had at least one symbol
NonEmptyBlocks == {n \in 1..Len(blocks) : blocks[n].symbols # <<>>}

\* y is x or x + 1
StepUp(x, y) == y = x \/ y = x + 1

(***************************************************************************)
(* C27: after every prefix of a stream the root sample count is at most    *)
(* the number of blocks finalized with a non-empty symbol list, itself at  *)
(* most the number of header lines read; the counters start at 0, each     *)
(* finalized block starts from the counters the previous one left, and it  *)
(* raises the root count and every callee count by 0 or 1, so no count     *)
(* ever decreases.                                                         *)
(***************************************************************************)
C27_CountsBoundedAndMonotone ==
    /\ counters.root_sample_record_count <= Cardinality(NonEmptyBlocks)
    /\ Cardinality(NonEmptyBlocks) <= Cardinality(HeaderLines)
    /\ counters = IF blocks = <<>> THEN new_counters(callee_symbols)
                  ELSE blocks[Len(blocks)].after
    /\ \A n \in 1..Len(blocks) :
          /\ blocks[n].before = IF n = 1 THEN new_counters(callee_symbols)
                                ELSE blocks[n - 1].after
          /\ StepUp(blocks[n].before.root_sample_record_count,
                    blocks[n].after.root_sample_record_count)
          /\ \A i \in CalleeIdx :
                StepUp(blocks[n].before.callees[i].sample_record_count,
                       blocks[n].after.callees[i].sample_record_count)

\* two headers were read and two blocks finalized, one without symbols and
\* one under the root
C27_Witness ==
    /\ Len(blocks) = 2
    /\ Cardinality(NonEmptyBlocks) = 1
    /\ counters.root_sample_record_count = 1
    /\ Cardinality(HeaderLines) = 2
    /\ blocks[1].after = blocks[2].before

====
